---- MODULE Spec2Model ----
(***************************************************************************)
(* State-machine model of mcc180_init.py, the initialisation script of the *)
(* Chalmers lab control stack.  The script is one straight-line sequence   *)
(* of module-level statements followed by one for loop; the model has one  *)
(* action per statement, a program counter over the statement labels, the  *)
(* module globals, the instruments the statements create and the values    *)
(* of their parameters, the registered data directory, and the record of   *)
(* the calls made into the instrument libraries.                           *)
(*                                                                         *)
(* The libraries themselves (quantify, qblox, qcodes) are outside the      *)
(* repository.  A call into them is modelled by the effect the script      *)
(* relies on; the calls that touch the filesystem or the network           *)
(* (set_datadir, Cluster, get_system_state, reset) may also raise, which   *)
(* ends the script since no statement of it is inside a try block.         *)
(***************************************************************************)
EXTENDS Integers, Sequences, FiniteSets, TLC

VARIABLES pc, error, home, globals, instruments, datadir, calls, stdout, it

vars == <<pc, error, home, globals, instruments, datadir, calls, stdout, it>>

(***************************************************************************)
(* Bounds of the model: the home directories the script may be run from.   *)
(***************************************************************************)
MaxUsers == 3

UserNames == <<"labuser", "guest", "student", "operator", "admin">>

\* Path.home() of the invoking user; a path is the sequence of its components.
Homes == { <<"home", UserNames[i]>> : i \in 1..MaxUsers }

\* The states get_system_state can report for the cluster.
SystemStates == {"OKAY", "CRITICAL"}

(***************************************************************************)
(* Helpers for mappings (Python dicts, the module namespace).              *)
(***************************************************************************)
Empty == [k \in {} |-> ""]

Put(f, k, v) == [y \in DOMAIN f \cup {k} |-> IF y = k THEN v ELSE f[y]]

\* os.path.join(base, leaf)
PathJoin(base, leaf) == Append(base, leaf)

\* A reference to an instrument object: its class and its .name attribute.
Obj(class, name) == [class |-> class, name |-> name]

Call(fn, target, arg, ok) == [fn |-> fn, target |-> target, arg |-> arg, ok |-> ok]

(***************************************************************************)
(* Literals of the script.                                                 *)
(***************************************************************************)
\* Frequencies exceed the 32-bit integers of the model checker and are kept
\* as the decimal text of the literal.
RO_settings_literal == [LO |-> "5800000000", off_I |-> 0, off_Q |-> 0]

clusterA_module2 ==
  [ instrument_type |-> "QCM_RF",
    complex_output_0 |->
      [ lo_freq |-> "5312327240.0",
        dc_mixer_offset_I |-> 0,
        dc_mixer_offset_Q |-> 0,
        portclock_configs |->
          << [ port |-> "q00:mw",
               clock |-> "q00.01",
               mixer_amp_ratio |-> 1,
               mixer_phase_error_deg |-> 0 ] >> ] ]

\* Variant: the readout entry lacks its mixer_phase_error_deg key.
clusterA_module10_missingKey ==
  [ instrument_type |-> "QRM_RF",
    complex_output_0 |->
      [ lo_freq |-> "7197494954.0",
        dc_mixer_offset_I |-> 0,
        dc_mixer_offset_Q |-> 0,
        portclock_configs |->
          << [ port |-> "q00:res",
               clock |-> "q00.ro",
               mixer_amp_ratio |-> 1 ] >> ] ]

\* Variant: the readout module claims the port and clock of the drive module.
clusterA_module10_samePortClock ==
  [ instrument_type |-> "QRM_RF",
    complex_output_0 |->
      [ lo_freq |-> "7197494954.0",
        dc_mixer_offset_I |-> 0,
        dc_mixer_offset_Q |-> 0,
        portclock_configs |->
          << [ port |-> "q00:mw",
               clock |-> "q00.01",
               mixer_amp_ratio |-> 1,
               mixer_phase_error_deg |-> 0 ] >> ] ]

clusterA_module10 ==
  [ instrument_type |-> "QRM_RF",
    complex_output_0 |->
      [ lo_freq |-> "7197494954.0",
        dc_mixer_offset_I |-> 0,
        dc_mixer_offset_Q |-> 0,
        portclock_configs |->
          << [ port |-> "q00:res",
               clock |-> "q00.ro",
               mixer_amp_ratio |-> 1,
               mixer_phase_error_deg |-> 0 ] >> ] ]

hardware_cfg_literal ==
  [ backend |-> "quantify_scheduler.backends.qblox_backend.hardware_compile",
    clusterA |->
      [ ref |-> "internal",
        instrument_type |-> "Cluster",
        clusterA_module2 |-> clusterA_module2,
        clusterA_module10 |-> clusterA_module10 ] ]

ClusterName == "clusterA"

ClusterAddress == "192.0.2.142"

DatadirLeaf == "quantify-data"

(***************************************************************************)
(* Order of the statements, by the sections of the file.  Script is the    *)
(* module-level sequence, LoopBody the body of the for statement.          *)
(***************************************************************************)
\* 2. Specify hardware configuration
HardwareConfiguration == << "RO_settings", "hardware_cfg" >>

\* 3 configure basic settings
BasicSettings == << "set_datadir", "print_datadir" >>

\* Variant: the cluster is reset before its state is queried.
PhysicalInstruments_resetBeforeState == << "Cluster", "reset", "get_system_state" >>

\* 4 Instantiate Instruments: physical instruments
PhysicalInstruments == << "Cluster", "get_system_state", "reset" >>

\* hardware abstraction layer
HardwareAbstractionLayer ==
  << "ClusterComponent", "InstrumentCoordinator", "add_component" >>

\* Variant: meas_ctrl is connected to plotmon before plotmon is constructed.
UtilityInstruments_bindBeforeCreate ==
  << "meas_ctrl", "nested_meas_ctrl", "meas_ctrl_instr_plotmon", "plotmon",
     "plotmon_nested", "nested_meas_ctrl_instr_plotmon", "insmon" >>

\* utility instruments
UtilityInstruments ==
  << "meas_ctrl", "nested_meas_ctrl", "plotmon", "meas_ctrl_instr_plotmon",
     "plotmon_nested", "nested_meas_ctrl_instr_plotmon", "insmon" >>

\* Config management instruments
ConfigManagementInstruments == << "q0" >>

\* Variant: the hardware configuration is attached before the device is
\* bound to its measurement control and instrument coordinator.
LoadingSettings_cfgBeforeBindings ==
  << "quantum_device", "hardware_config", "instr_measurement_control",
     "instr_instrument_coordinator",
     "LAST_TUID", "list_of_qubits", "for_qubit", "finished" >>

\* 5 Loading settings onto instruments
LoadingSettings ==
  << "quantum_device", "instr_measurement_control",
     "instr_instrument_coordinator", "hardware_config",
     "LAST_TUID", "list_of_qubits", "for_qubit", "finished" >>

Script ==
  HardwareConfiguration \o BasicSettings \o PhysicalInstruments
    \o HardwareAbstractionLayer \o UtilityInstruments
    \o ConfigManagementInstruments \o LoadingSettings

LoopBody == << "add_element" >>

Index(seq, l) == CHOOSE i \in 1..Len(seq) : seq[i] = l

\* The statement executed after statement l completes normally.
Succ(l) ==
  IF \E i \in 1..Len(LoopBody) : LoopBody[i] = l
  THEN IF Index(LoopBody, l) < Len(LoopBody)
       THEN LoopBody[Index(LoopBody, l) + 1]
       ELSE "for_qubit"
  ELSE IF Index(Script, l) < Len(Script)
       THEN Script[Index(Script, l) + 1]
       ELSE "done"

NoError == [exc |-> "none", at |-> "none"]

Init ==
  /\ pc = Script[1]
  /\ error = NoError
  /\ home \in Homes
  /\ globals = Empty
  /\ instruments = Empty
  /\ datadir = <<>>
  /\ calls = <<>>
  /\ stdout = <<>>
  /\ it = 0

(***************************************************************************)
(* A statement at label l that reads the globals in uses.  Reading an      *)
(* unbound name raises NameError, which ends the script.                   *)
(***************************************************************************)
Stmt(l, uses, Effect) ==
  /\ pc = l
  /\ IF uses \subseteq DOMAIN globals
     THEN /\ Effect
          /\ pc' = Succ(l)
          /\ error' = error
     ELSE /\ pc' = "aborted"
          /\ error' = [exc |-> "NameError", at |-> l]
          /\ UNCHANGED <<globals, instruments, datadir, calls, stdout, it>>
  /\ home' = home

\* An uncaught exception exc raised by the library call fn of statement l.
Raises(l, uses, exc, fn, target, arg, out) ==
  /\ pc = l
  /\ uses \subseteq DOMAIN globals
  /\ pc' = "aborted"
  /\ error' = [exc |-> exc, at |-> l]
  /\ calls' = Append(calls, Call(fn, target, arg, FALSE))
  /\ stdout' = stdout \o out
  /\ UNCHANGED <<home, globals, instruments, datadir, it>>

\* RO_settings = {...}
AssignROSettings ==
  Stmt("RO_settings", {},
       /\ globals' = Put(globals, "RO_settings", RO_settings_literal)
       /\ UNCHANGED <<instruments, datadir, calls, stdout, it>>)

\* hardware_cfg = {...}
AssignHardwareCfg ==
  Stmt("hardware_cfg", {},
       /\ globals' = Put(globals, "hardware_cfg", hardware_cfg_literal)
       /\ UNCHANGED <<instruments, datadir, calls, stdout, it>>)

\* set_datadir(os.path.join(Path.home(), "quantify-data"))
SetDatadir ==
  Stmt("set_datadir", {},
       /\ datadir' = PathJoin(home, DatadirLeaf)
       /\ calls' = Append(calls, Call("set_datadir", "", DatadirLeaf, TRUE))
       /\ UNCHANGED <<globals, instruments, stdout, it>>)

SetDatadirRaises ==
  Raises("set_datadir", {}, "OSError", "set_datadir", "", DatadirLeaf, <<>>)

\* print(f"\nData directory set to: {get_datadir()}\n")
PrintDatadir ==
  Stmt("print_datadir", {},
       /\ stdout' = Append(stdout, [msg |-> "Data directory set to", val |-> datadir])
       /\ UNCHANGED <<globals, instruments, datadir, calls, it>>)

(***************************************************************************)
(* Instruments.  Constructing one binds the global var to the new object   *)
(* and enters it, by name, among the instruments of the session; params    *)
(* holds the values its parameters have been given.                        *)
(***************************************************************************)
NewInstrument(var, class, name, arg, initial) ==
  /\ globals' = Put(globals, var, Obj(class, name))
  /\ instruments' = Put(instruments, name, [class |-> class, params |-> initial])
  /\ calls' = Append(calls, Call(class, name, arg, TRUE))

\* instrument.param(value)
SetParam(name, param, value) ==
  instruments' = [instruments EXCEPT ![name].params = Put(@, param, value)]

\* print("connecting to qblox-cluster-MM.")
\* cluster0 = Cluster("clusterA", "192.0.2.142")
NewCluster ==
  Stmt("Cluster", {},
       /\ NewInstrument("cluster0", "Cluster", ClusterName, ClusterAddress, Empty)
       /\ stdout' = Append(stdout, [msg |-> "connecting to qblox-cluster-MM.", val |-> <<>>])
       /\ UNCHANGED <<datadir, it>>)

\* Variant: the connection error is caught and the script carries on.
NewClusterRaises_swallowed ==
  /\ pc = "Cluster"
  /\ pc' = Succ("Cluster")
  /\ error' = [exc |-> "ConnectionError", at |-> "Cluster"]
  /\ calls' = Append(calls, Call("Cluster", ClusterName, ClusterAddress, FALSE))
  /\ stdout' = Append(stdout, [msg |-> "connecting to qblox-cluster-MM.", val |-> <<>>])
  /\ UNCHANGED <<home, globals, instruments, datadir, it>>

NewClusterRaises ==
  Raises("Cluster", {}, "ConnectionError", "Cluster", ClusterName, ClusterAddress,
         << [msg |-> "connecting to qblox-cluster-MM.", val |-> <<>>] >>)

\* print("CMM system status is \n", cluster0.get_system_state())
\* print("correctly connected to qblox-cluster-MM.\n")
GetSystemState ==
  \E s \in SystemStates :
    Stmt("get_system_state", {"cluster0"},
         /\ calls' = Append(calls, Call("get_system_state", globals["cluster0"].name, "", TRUE))
         /\ stdout' = stdout \o << [msg |-> "CMM system status is", val |-> <<s>>],
                                   [msg |-> "correctly connected to qblox-cluster-MM.", val |-> <<>>] >>
         /\ UNCHANGED <<globals, instruments, datadir, it>>)

GetSystemStateRaises ==
  /\ "cluster0" \in DOMAIN globals
  /\ Raises("get_system_state", {"cluster0"}, "ConnectionError",
            "get_system_state", globals["cluster0"].name, "", <<>>)

\* cluster0.reset()
Reset ==
  Stmt("reset", {"cluster0"},
       /\ calls' = Append(calls, Call("reset", globals["cluster0"].name, "", TRUE))
       /\ UNCHANGED <<globals, instruments, datadir, stdout, it>>)

ResetRaises ==
  /\ "cluster0" \in DOMAIN globals
  /\ Raises("reset", {"cluster0"}, "ConnectionError",
            "reset", globals["cluster0"].name, "", <<>>)

\* ic_cluster0 = ClusterComponent(cluster0)
NewClusterComponent ==
  Stmt("ClusterComponent", {"cluster0"},
       /\ globals' = Put(globals, "ic_cluster0",
                         [class |-> "ClusterComponent", instrument |-> globals["cluster0"].name])
       /\ calls' = Append(calls, Call("ClusterComponent", "", globals["cluster0"].name, TRUE))
       /\ UNCHANGED <<instruments, datadir, stdout, it>>)

\* instrument_coordinator = InstrumentCoordinator("instrument_coordinator")
NewInstrumentCoordinator ==
  Stmt("InstrumentCoordinator", {},
       /\ NewInstrument("instrument_coordinator", "InstrumentCoordinator",
                        "instrument_coordinator", "", [components |-> <<>>])
       /\ UNCHANGED <<datadir, stdout, it>>)

\* instrument_coordinator.add_component(ic_cluster0)
AddComponent ==
  Stmt("add_component", {"instrument_coordinator", "ic_cluster0"},
       /\ SetParam(globals["instrument_coordinator"].name, "components",
                   Append(instruments[globals["instrument_coordinator"].name].params["components"],
                          globals["ic_cluster0"]))
       /\ calls' = Append(calls, Call("add_component", globals["instrument_coordinator"].name,
                                      globals["ic_cluster0"].instrument, TRUE))
       /\ UNCHANGED <<globals, datadir, stdout, it>>)

\* meas_ctrl = mc.MeasurementControl("meas_ctrl")
NewMeasCtrl ==
  Stmt("meas_ctrl", {},
       /\ NewInstrument("meas_ctrl", "MeasurementControl", "meas_ctrl", "", Empty)
       /\ UNCHANGED <<datadir, stdout, it>>)

\* nested_meas_ctrl = mc.MeasurementControl("nested_meas_ctrl")
NewNestedMeasCtrl ==
  Stmt("nested_meas_ctrl", {},
       /\ NewInstrument("nested_meas_ctrl", "MeasurementControl", "nested_meas_ctrl", "", Empty)
       /\ UNCHANGED <<datadir, stdout, it>>)

\* plotmon = pqm.PlotMonitor_pyqt("plotmon")
NewPlotmon ==
  Stmt("plotmon", {},
       /\ NewInstrument("plotmon", "PlotMonitor_pyqt", "plotmon", "", Empty)
       /\ UNCHANGED <<datadir, stdout, it>>)

\* The binding instrument.param(other.name) of one instrument to another.
BindByName(l, var, param, other) ==
  Stmt(l, {var, other},
       /\ SetParam(globals[var].name, param, globals[other].name)
       /\ calls' = Append(calls, Call(param, globals[var].name, globals[other].name, TRUE))
       /\ UNCHANGED <<globals, datadir, stdout, it>>)

\* meas_ctrl.instr_plotmon(plotmon.name)
MeasCtrlInstrPlotmon ==
  BindByName("meas_ctrl_instr_plotmon", "meas_ctrl", "instr_plotmon", "plotmon")

\* plotmon_nested = pqm.PlotMonitor_pyqt("plotmon_nested")
NewPlotmonNested ==
  Stmt("plotmon_nested", {},
       /\ NewInstrument("plotmon_nested", "PlotMonitor_pyqt", "plotmon_nested", "", Empty)
       /\ UNCHANGED <<datadir, stdout, it>>)

\* Variant: the nested measurement control is given the monitor of the primary.
NestedMeasCtrlInstrPlotmon_sharedMonitor ==
  BindByName("nested_meas_ctrl_instr_plotmon", "nested_meas_ctrl", "instr_plotmon",
             "plotmon")

\* nested_meas_ctrl.instr_plotmon(plotmon_nested.name)
NestedMeasCtrlInstrPlotmon ==
  BindByName("nested_meas_ctrl_instr_plotmon", "nested_meas_ctrl", "instr_plotmon",
             "plotmon_nested")

\* insmon = InstrumentMonitor("insmon")
NewInsmon ==
  Stmt("insmon", {},
       /\ NewInstrument("insmon", "InstrumentMonitor", "insmon", "", Empty)
       /\ UNCHANGED <<datadir, stdout, it>>)

\* q0 = BasicTransmonElement("q00")
NewQ0 ==
  Stmt("q0", {},
       /\ NewInstrument("q0", "BasicTransmonElement", "q00", "", Empty)
       /\ UNCHANGED <<datadir, stdout, it>>)

\* print(f"Finished loading instruments {t2-t0:.2f} s")
\* quantum_device = QuantumDevice(name="quantum_device")
NewQuantumDevice ==
  Stmt("quantum_device", {},
       /\ NewInstrument("quantum_device", "QuantumDevice", "quantum_device", "",
                        [elements |-> <<>>])
       /\ stdout' = Append(stdout, [msg |-> "Finished loading instruments", val |-> <<>>])
       /\ UNCHANGED <<datadir, it>>)

\* quantum_device.instr_measurement_control(meas_ctrl.name)
InstrMeasurementControl ==
  BindByName("instr_measurement_control", "quantum_device", "instr_measurement_control",
             "meas_ctrl")

\* quantum_device.instr_instrument_coordinator(instrument_coordinator.name)
InstrInstrumentCoordinator ==
  BindByName("instr_instrument_coordinator", "quantum_device",
             "instr_instrument_coordinator", "instrument_coordinator")

\* quantum_device.hardware_config(hardware_cfg)
HardwareConfig ==
  Stmt("hardware_config", {"quantum_device", "hardware_cfg"},
       /\ SetParam(globals["quantum_device"].name, "hardware_config", globals["hardware_cfg"])
       /\ calls' = Append(calls, Call("hardware_config", globals["quantum_device"].name,
                                      "hardware_cfg", TRUE))
       /\ UNCHANGED <<globals, datadir, stdout, it>>)

\* LAST_TUID = None
AssignLastTuid ==
  Stmt("LAST_TUID", {},
       /\ globals' = Put(globals, "LAST_TUID", "None")
       /\ UNCHANGED <<instruments, datadir, calls, stdout, it>>)

\* list_of_qubits = [q0]
AssignListOfQubits ==
  Stmt("list_of_qubits", {"q0"},
       /\ globals' = Put(globals, "list_of_qubits", << globals["q0"] >>)
       /\ UNCHANGED <<instruments, datadir, calls, stdout, it>>)

\* for qubit in list_of_qubits:
\* it counts the items the loop has taken; an exhausted list ends the loop.
ForQubit ==
  /\ pc = "for_qubit"
  /\ IF "list_of_qubits" \notin DOMAIN globals
     THEN /\ pc' = "aborted"
          /\ error' = [exc |-> "NameError", at |-> "for_qubit"]
          /\ UNCHANGED <<globals, it>>
     ELSE /\ error' = error
          /\ IF it < Len(globals["list_of_qubits"])
             THEN /\ globals' = Put(globals, "qubit", globals["list_of_qubits"][it + 1])
                  /\ it' = it + 1
                  /\ pc' = LoopBody[1]
             ELSE /\ pc' = Succ("for_qubit")
                  /\ UNCHANGED <<globals, it>>
  /\ UNCHANGED <<home, instruments, datadir, calls, stdout>>

\* Variant: the loop body passes over the element without registering it.
AddElement_notRegistered ==
  Stmt("add_element", {"quantum_device", "qubit"},
       UNCHANGED <<globals, instruments, datadir, calls, stdout, it>>)

\*     quantum_device.add_element(qubit)
\* The try block around load_settings_onto_instrument that follows in the
\* file is commented out; add_element is the whole body of the loop.
AddElement ==
  Stmt("add_element", {"quantum_device", "qubit"},
       /\ SetParam(globals["quantum_device"].name, "elements",
                   Append(instruments[globals["quantum_device"].name].params["elements"],
                          globals["qubit"].name))
       /\ calls' = Append(calls, Call("add_element", globals["quantum_device"].name,
                                      globals["qubit"].name, TRUE))
       /\ UNCHANGED <<globals, datadir, stdout, it>>)

\* print(f"Finished loading settings {t3-t0:.2f} s")
Finished ==
  Stmt("finished", {},
       /\ stdout' = Append(stdout, [msg |-> "Finished loading settings", val |-> <<>>])
       /\ UNCHANGED <<globals, instruments, datadir, calls, it>>)

Next ==
  \/ AssignROSettings
  \/ AssignHardwareCfg
  \/ SetDatadir
  \/ SetDatadirRaises
  \/ PrintDatadir
  \/ NewCluster
  \/ NewClusterRaises
  \/ GetSystemState
  \/ GetSystemStateRaises
  \/ Reset
  \/ ResetRaises
  \/ NewClusterComponent
  \/ NewInstrumentCoordinator
  \/ AddComponent
  \/ NewMeasCtrl
  \/ NewNestedMeasCtrl
  \/ NewPlotmon
  \/ MeasCtrlInstrPlotmon
  \/ NewPlotmonNested
  \/ NestedMeasCtrlInstrPlotmon
  \/ NewInsmon
  \/ NewQ0
  \/ NewQuantumDevice
  \/ InstrMeasurementControl
  \/ InstrInstrumentCoordinator
  \/ HardwareConfig
  \/ AssignLastTuid
  \/ AssignListOfQubits
  \/ ForQubit
  \/ AddElement
  \/ Finished

Spec == Init /\ [][Next]_vars

(***************************************************************************)
(* Observations of the state used by the properties.                       *)
(***************************************************************************)
Bound(v) == v \in DOMAIN globals

Exists(name) == name \in DOMAIN instruments

HasParam(name, p) == Exists(name) /\ p \in DOMAIN instruments[name].params

ParamOf(name, p) == instruments[name].params[p]

\* The elements registered in quantum_device, in order of registration.
Elements == IF HasParam("quantum_device", "elements")
            THEN ParamOf("quantum_device", "elements") ELSE <<>>

\* The components added to the instrument coordinator.
Components == IF HasParam("instrument_coordinator", "components")
              THEN ParamOf("instrument_coordinator", "components") ELSE <<>>

Range(seq) == { seq[i] : i \in 1..Len(seq) }

\* The calls of function fn on target, as positions of the call record.
CallsTo(fn, target) == { i \in 1..Len(calls) : calls[i].fn = fn /\ calls[i].target = target }

CallsOf(fn) == { i \in 1..Len(calls) : calls[i].fn = fn }

\* The configured elements, once list_of_qubits is bound.
ListOfQubits == IF Bound("list_of_qubits") THEN globals["list_of_qubits"] ELSE <<>>

AfterLoop == pc \in {"finished", "done"}

C2_HydrationAttemptedOncePerElement ==
  pc = "done" =>
    \A i \in 1..Len(ListOfQubits) :
      Cardinality(CallsTo("load_settings_onto_instrument", ListOfQubits[i].name)) = 1

(***************************************************************************)
(* The shape of a hardware configuration cfg.                              *)
(***************************************************************************)
Clusters(cfg) == DOMAIN cfg \ {"backend"}

Modules(cfg, c) == DOMAIN cfg[c] \ {"ref", "instrument_type"}

Outputs(cfg, c, m) == DOMAIN cfg[c][m] \ {"instrument_type"}

PortclockKeys == {"port", "clock", "mixer_amp_ratio", "mixer_phase_error_deg"}

\* The places <<module, output, index>> of the port-clock entries of cluster c.
Places(cfg, c) ==
  UNION { UNION { { <<m, o, i>> : i \in 1..Len(cfg[c][m][o].portclock_configs) } :
                  o \in Outputs(cfg, c, m) } :
          m \in Modules(cfg, c) }

\* The <<port, clock>> pair at place p of cluster c.
PortClock(cfg, c, p) ==
  << cfg[c][p[1]][p[2]].portclock_configs[p[3]].port,
     cfg[c][p[1]][p[2]].portclock_configs[p[3]].clock >>

WellFormed(cfg) ==
  /\ "backend" \in DOMAIN cfg
  /\ Clusters(cfg) # {}
  /\ \A c \in Clusters(cfg) :
       /\ {"ref", "instrument_type"} \subseteq DOMAIN cfg[c]
       /\ Modules(cfg, c) # {}
       /\ \A m \in Modules(cfg, c) :
            /\ Outputs(cfg, c, m) # {}
            /\ \A o \in Outputs(cfg, c, m) :
                 /\ "portclock_configs" \in DOMAIN cfg[c][m][o]
                 /\ Len(cfg[c][m][o].portclock_configs) >= 1
                 /\ \A i \in 1..Len(cfg[c][m][o].portclock_configs) :
                      DOMAIN cfg[c][m][o].portclock_configs[i] = PortclockKeys

(***************************************************************************)
(* C3.  Whenever hardware_cfg is bound, it has the key backend, every      *)
(* cluster has ref and instrument_type, and every output of every module   *)
(* has a non-empty portclock_configs whose entries have exactly the keys   *)
(* port, clock, mixer_amp_ratio and mixer_phase_error_deg.                 *)
(***************************************************************************)
C3_HardwareCfgShape ==
  Bound("hardware_cfg") => WellFormed(globals["hardware_cfg"])

C3_Witness ==
  /\ Bound("hardware_cfg")
  /\ Cardinality(Modules(globals["hardware_cfg"], "clusterA")) = 2
  /\ pc = "set_datadir"

(***************************************************************************)
(* C4.  Whenever hardware_cfg is bound, no two port-clock entries of one   *)
(* cluster, in whatever modules and outputs, name the same port and clock. *)
(***************************************************************************)
C4_PortClockUnique ==
  Bound("hardware_cfg") =>
    \A c \in Clusters(globals["hardware_cfg"]) :
      \A p1, p2 \in Places(globals["hardware_cfg"], c) :
        p1 # p2 => PortClock(globals["hardware_cfg"], c, p1)
                     # PortClock(globals["hardware_cfg"], c, p2)

C4_Witness ==
  /\ Bound("hardware_cfg")
  /\ Cardinality(Places(globals["hardware_cfg"], "clusterA")) >= 2
  /\ pc = "done"

(***************************************************************************)
(* C5.  An exception raised by set_datadir or by the connection stage      *)
(* (Cluster, get_system_state, reset) ends the script: no later statement  *)
(* has run, so none of the later objects exists and nothing is registered. *)
(***************************************************************************)
BootstrapStatements == {"set_datadir", "Cluster", "get_system_state", "reset"}

LaterGlobals ==
  {"ic_cluster0", "instrument_coordinator", "meas_ctrl", "nested_meas_ctrl", "plotmon",
   "plotmon_nested", "insmon", "q0", "quantum_device", "list_of_qubits", "qubit"}

LaterClasses ==
  {"InstrumentCoordinator", "MeasurementControl", "PlotMonitor_pyqt", "InstrumentMonitor",
   "BasicTransmonElement", "QuantumDevice"}

C5_BootstrapFailureAborts ==
  error.at \in BootstrapStatements =>
    /\ pc = "aborted"
    /\ calls[Len(calls)].ok = FALSE
    /\ LaterGlobals \cap DOMAIN globals = {}
    /\ \A n \in DOMAIN instruments : instruments[n].class \notin LaterClasses
    /\ Elements = <<>>
    /\ Components = <<>>

C5_Witness ==
  /\ pc = "aborted"
  /\ error.at = "reset"
  /\ Exists(ClusterName)

(***************************************************************************)
(* C6.  The calls made on the cluster, in order.                           *)
(***************************************************************************)
ClusterCalls ==
  LET sel == SelectSeq(calls, LAMBDA c : c.target = ClusterName
                                          /\ c.fn \in {"Cluster", "get_system_state", "reset"})
  IN  [i \in 1..Len(sel) |-> sel[i].fn]

IsPrefix(s, t) == Len(s) <= Len(t) /\ \A i \in 1..Len(s) : s[i] = t[i]

Wrapped == Bound("ic_cluster0") \/ Components # <<>>

\* C6 as stated: connect, then reset, then the status query, and the cluster
\* is wrapped and added to the coordinator only after the three.
C6_ConnectResetStatus ==
  Wrapped => ClusterCalls = <<"Cluster", "reset", "get_system_state">>

\* C6 as the script does it: connect, then the status query, then reset, each
\* at most once and in this order, and the cluster is wrapped in a
\* ClusterComponent and added to the coordinator only after the three have
\* completed.
C6_ConnectStatusReset ==
  /\ IsPrefix(ClusterCalls, <<"Cluster", "get_system_state", "reset">>)
  /\ Wrapped =>
       /\ ClusterCalls = <<"Cluster", "get_system_state", "reset">>
       /\ \A i \in 1..Len(calls) : calls[i].ok
  /\ Components # <<>> => Bound("ic_cluster0")

C6_Witness ==
  /\ Components = << [class |-> "ClusterComponent", instrument |-> ClusterName] >>
  /\ ClusterCalls = <<"Cluster", "get_system_state", "reset">>

(***************************************************************************)
(* C8.  Once hardware_cfg is bound no step changes it; it is handed to     *)
(* quantum_device.hardware_config at most once, by then quantum_device is  *)
(* bound to its measurement control and its instrument coordinator, what   *)
(* quantum_device holds is the configuration as constructed, and a         *)
(* completed script has handed it over.                                    *)
(***************************************************************************)
HandedOver == CallsTo("hardware_config", "quantum_device")

C8_CfgFrame ==
  Bound("hardware_cfg") =>
    /\ "hardware_cfg" \in DOMAIN globals'
    /\ globals'["hardware_cfg"] = globals["hardware_cfg"]

C8_CfgHandedOnce ==
  /\ Cardinality(HandedOver) <= 1
  /\ HandedOver # {} =>
       /\ HasParam("quantum_device", "instr_measurement_control")
       /\ HasParam("quantum_device", "instr_instrument_coordinator")
       /\ HasParam("quantum_device", "hardware_config")
       /\ ParamOf("quantum_device", "hardware_config") = globals["hardware_cfg"]
       /\ globals["hardware_cfg"] = hardware_cfg_literal
  /\ HasParam("quantum_device", "hardware_config") => HandedOver # {}
  /\ pc = "done" => Cardinality(HandedOver) = 1

C8_CfgNeverMutatedHandedOnce == [][C8_CfgFrame]_vars /\ []C8_CfgHandedOnce

C8_Witness ==
  /\ pc = "done"
  /\ Cardinality(HandedOver) = 1
  /\ ParamOf("quantum_device", "hardware_config") = hardware_cfg_literal

(***************************************************************************)
(* C9.  When the script has completed, meas_ctrl is bound to plotmon,      *)
(* nested_meas_ctrl to plotmon_nested, and quantum_device to meas_ctrl and *)
(* to instrument_coordinator, which holds the component wrapping cluster0. *)
(***************************************************************************)
C9_FinalBindings ==
  pc = "done" =>
    /\ HasParam("meas_ctrl", "instr_plotmon")
    /\ ParamOf("meas_ctrl", "instr_plotmon") = "plotmon"
    /\ HasParam("nested_meas_ctrl", "instr_plotmon")
    /\ ParamOf("nested_meas_ctrl", "instr_plotmon") = "plotmon_nested"
    /\ HasParam("quantum_device", "instr_measurement_control")
    /\ ParamOf("quantum_device", "instr_measurement_control") = "meas_ctrl"
    /\ HasParam("quantum_device", "instr_instrument_coordinator")
    /\ ParamOf("quantum_device", "instr_instrument_coordinator") = "instrument_coordinator"
    /\ Bound("cluster0")
    /\ \E i \in 1..Len(Components) :
         /\ Components[i].class = "ClusterComponent"
         /\ Components[i].instrument = globals["cluster0"].name

C9_Witness ==
  /\ pc = "done"
  /\ ParamOf("meas_ctrl", "instr_plotmon") # ParamOf("nested_meas_ctrl", "instr_plotmon")
  /\ Len(Components) = 1

(***************************************************************************)
(* C10.  The instruments are constructed at most once each, under names    *)
(* that differ from one another; a completed script has constructed        *)
(* exactly the nine named ones; no statement reads a global before it is   *)
(* bound; and whatever a binding, a registered element or a component      *)
(* names is an instrument that exists.                                     *)
(***************************************************************************)
InstrumentClasses == {"Cluster"} \cup LaterClasses

Constructions == { i \in 1..Len(calls) : calls[i].fn \in InstrumentClasses /\ calls[i].ok }

SessionNames ==
  {"clusterA", "instrument_coordinator", "meas_ctrl", "nested_meas_ctrl", "plotmon",
   "plotmon_nested", "insmon", "q00", "quantum_device"}

ByNameParams == {"instr_plotmon", "instr_measurement_control", "instr_instrument_coordinator"}

C10_CreatedOnceBeforeUse ==
  /\ \A i, j \in Constructions : i # j => calls[i].target # calls[j].target
  /\ { calls[i].target : i \in Constructions } = DOMAIN instruments
  /\ DOMAIN instruments \subseteq SessionNames
  /\ pc = "done" => DOMAIN instruments = SessionNames
  /\ error.exc # "NameError"
  /\ \A n \in DOMAIN instruments :
       \A p \in ByNameParams \cap DOMAIN instruments[n].params :
         Exists(instruments[n].params[p])
  /\ \A e \in Range(Elements) : Exists(e)
  /\ \A c \in Range(Components) : Exists(c.instrument)

C10_Witness ==
  /\ pc = "done"
  /\ Cardinality(Constructions) = 9
  /\ Range(Elements) = {"q00"}

====
